---- MODULE Spec2Model ----
\* cros_config_schema.py: transform, validate and filter a cros config.
\*
\* Text is modelled as a sequence of tokens: every separator character the
\* code looks at ("/", "-", "_", "@", ".") is a token of its own and every
\* run of other characters is one token, so 'overlay-reef' is
\* <<"overlay", "-", "reef">>.  String operations of the code (replace,
\* endswith, %-formatting, os.path.join) are computed on these sequences.
\*
\* A JSON value is a record with a tag t and one field per kind:
\* s (text), d (mapping from keys to values), l (list of values).
EXTENDS Integers, Sequences, FiniteSets, TLC

\* ---------------------------------------------------------------------
\* Bounds
\* ---------------------------------------------------------------------
MaxModels == 2
MaxTreeDepth == 3

\* ---------------------------------------------------------------------
\* JSON values (yaml.load / json.loads results)
\* ---------------------------------------------------------------------
Str(x) == [t |-> "s", s |-> x, d |-> <<>>, l |-> <<>>]
Dict(f) == [t |-> "d", s |-> <<>>, d |-> f, l |-> <<>>]
List(q) == [t |-> "l", s |-> <<>>, d |-> <<>>, l |-> q]
None == [t |-> "n", s |-> <<>>, d |-> <<>>, l |-> <<>>]
\* The outcome of a failed attribute lookup (the lookup raises).
Raised == [t |-> "x", s |-> <<>>, d |-> <<>>, l |-> <<>>]

\* Python truthiness: `if v:`
Truthy(v) ==
  CASE v.t = "s" -> v.s # <<>>
    [] v.t = "d" -> DOMAIN v.d # {}
    [] v.t = "l" -> v.l # <<>>
    [] OTHER -> FALSE

\* isinstance(v, dict) / isinstance(v, collections.Mapping)
IsDict(v) == v.t = "d"

\* ---------------------------------------------------------------------
\* Program constants
\* ---------------------------------------------------------------------
MODELS == <<"models">>
\* Variant: the first element lacks its leading slash, so it matches no
\* path; C5 must notice.
BUILD_ONLY_ELEMENTS_no_slash ==
  << <<"firmware">>,
     <<"/", "audio", "/", "main", "/", "card">>,
     <<"/", "audio", "/", "main", "/", "cras", "-", "config", "-", "subdir">>,
     <<"/", "audio", "/", "main", "/", "files">> >>
BUILD_ONLY_ELEMENTS ==
  << <<"/", "firmware">>,
     <<"/", "audio", "/", "main", "/", "card">>,
     <<"/", "audio", "/", "main", "/", "cras", "-", "config", "-", "subdir">>,
     <<"/", "audio", "/", "main", "/", "files">> >>
CRAS_CONFIG_DIR == <<"/", "etc", "/", "cras">>

\* Keys and attribute names the code spells out.
K_name == <<"name">>
K_audio == <<"audio">>
K_main == <<"main">>
K_firmware == <<"firmware">>
K_files == <<"files">>
K_source == <<"source">>
K_dest == <<"dest">>
K_card == <<"card">>
K_bcs_uris == <<"bcs", "-", "uris">>
cras_config_dir_name == <<"cras", "-", "config", "-", "dir">>
cras_config_subdir_name == <<"cras", "-", "config", "-", "subdir">>
A_cras_config_subdir == <<"cras", "_", "config", "_", "subdir">>
A_ucm_suffix == <<"ucm", "-", "suffix">>
A_firmware_bin == <<"firmware", "_", "bin">>
A_bcs_overlay == <<"bcs", "_", "overlay">>
A_build_targets == <<"build", "_", "targets">>
A_coreboot == <<"coreboot">>
S_image == <<"image">>
S_overlay_dash == <<"overlay", "-">>

\* ---------------------------------------------------------------------
\* String operations
\* ---------------------------------------------------------------------
StartsWith(x, p) == Len(p) <= Len(x) /\ SubSeq(x, 1, Len(p)) = p
\* str.endswith
EndsWith(x, p) ==
  Len(p) <= Len(x) /\ SubSeq(x, Len(x) - Len(p) + 1, Len(x)) = p

\* str.replace(old, new): every non-overlapping occurrence, left to right.
RECURSIVE Replace(_, _, _)
Replace(x, old, new) ==
  IF x = <<>> THEN <<>>
  ELSE IF StartsWith(x, old)
       THEN new \o Replace(SubSeq(x, Len(old) + 1, Len(x)), old, new)
       ELSE <<Head(x)>> \o Replace(Tail(x), old, new)

\* os.path.join(a, b) for POSIX paths.
PathJoin(a, b) ==
  IF StartsWith(b, <<"/">>) THEN b
  ELSE IF a = <<>> \/ EndsWith(a, <<"/">>) THEN a \o b
  ELSE a \o <<"/">> \o b

\* ---------------------------------------------------------------------
\* GetNamedTuple and attribute access on its result
\* ---------------------------------------------------------------------
\* k.replace('-', '_').replace('@', '_')
FieldName(k) == Replace(Replace(k, <<"-">>, <<"_">>), <<"@">>, <<"_">>)

\* The fields of the named tuple built from a mapping: its keys renamed,
\* each holding the value of a key that renames to it.
GetNamedTuple(mapping) ==
  [n \in {FieldName(k) : k \in DOMAIN mapping} |->
     mapping[CHOOSE k \in DOMAIN mapping : FieldName(k) = n]]

\* obj.attr where obj came out of GetNamedTuple: the field, or a raised
\* AttributeError when obj has no such field (or is not a named tuple).
Attr(obj, attr) ==
  IF IsDict(obj) /\ attr \in DOMAIN GetNamedTuple(obj.d)
  THEN GetNamedTuple(obj.d)[attr]
  ELSE Raised

\* getattr(obj, attr, None)
GetAttrOrNone(obj, attr) ==
  IF Attr(obj, attr) = Raised THEN None ELSE Attr(obj, attr)

\* dict.get(key, default)
DictGet(mapping, key, default) ==
  IF key \in DOMAIN mapping THEN mapping[key] ELSE default

\* Results of operations that may raise.
Ok(val) == [err |-> "", val |-> val]
Raise(e) == [err |-> e, val |-> <<>>]

\* ---------------------------------------------------------------------
\* _GetAudioFiles
\* ---------------------------------------------------------------------
_AddAudioFile(files, source, dest, file) ==
  Append(files, Dict((K_source :> Str(PathJoin(source, file)))
                     @@ (K_dest :> Str(PathJoin(dest, file)))))

_GetAudioFiles(model_dict) ==
  LET main == Attr(Attr(model_dict, K_audio), K_main)
      card == Attr(main, K_card)
      subdir == Attr(main, A_cras_config_subdir)
      subdir_path == IF Truthy(subdir) THEN subdir.s \o <<"/">> ELSE <<>>
      cras_source == <<"cras", "-", "config">>
      cras_dest == CRAS_CONFIG_DIR
      f1 == _AddAudioFile(<<>>, cras_source, cras_dest, subdir_path \o card.s)
      f2 == _AddAudioFile(f1, cras_source, cras_dest,
                          subdir_path \o <<"dsp", ".", "ini">>)
      ucm_source == <<"ucm", "-", "config">>
      ucm_dest == <<"/", "ucm", "/", "share", "/", "alsa", "/", "ucm">>
      ucm_suffix == GetAttrOrNone(main, A_ucm_suffix)
      ucm_suffix_path ==
        IF Truthy(ucm_suffix) THEN <<".">> \o ucm_suffix.s ELSE <<>>
      ucm_card_path == card.s \o ucm_suffix_path
      f3 == _AddAudioFile(f2, ucm_source, ucm_dest,
                          PathJoin(ucm_card_path, <<"HiFi", ".", "conf">>))
      f4 == _AddAudioFile(f3, ucm_source, ucm_dest,
                          PathJoin(ucm_card_path,
                                   ucm_card_path \o <<".", "conf">>))
      firmware_bin == GetAttrOrNone(main, A_firmware_bin)
      f5 == IF Truthy(firmware_bin)
            THEN _AddAudioFile(f4, <<"topology">>,
                               <<"/", "lib", "/", "firmware">>,
                               firmware_bin.s)
            ELSE f4
  IN IF card = Raised \/ subdir = Raised
     THEN Raise("AttributeError")
     ELSE Ok(f5)

\* ---------------------------------------------------------------------
\* _GetFirmwareUris
\* ---------------------------------------------------------------------
\* 'gs://chromeos-binaries/HOME/bcs-{bcs}/overlay-{bcs}/'
\* 'chromeos-base/chromeos-firmware-{base_model}/{fname}'
uri_format(bcs, base_model, fname) ==
  <<"gs:", "/", "/", "chromeos", "-", "binaries", "/", "HOME", "/",
    "bcs", "-">> \o bcs \o <<"/", "overlay", "-">> \o bcs
  \o <<"/", "chromeos", "-", "base", "/", "chromeos", "-", "firmware", "-">>
  \o base_model \o <<"/">> \o fname

\* Variant: the `and p` test is missing, so empty image fields get a URI;
\* C4 must notice.
RECURSIVE valid_images_any(_, _)
valid_images_any(fw_dict, items) ==
  IF items = <<>> THEN <<>>
  ELSE (IF EndsWith(Head(items), S_image) THEN <<fw_dict[Head(items)]>>
        ELSE <<>>)
       \o valid_images_any(fw_dict, Tail(items))

\* [p for n, p in fw_dict.iteritems() if n.endswith('image') and p], with
\* the fields visited in the order items lists them.
RECURSIVE valid_images(_, _)
valid_images(fw_dict, items) ==
  IF items = <<>> THEN <<>>
  ELSE LET n == Head(items)
           p == fw_dict[n]
       IN (IF EndsWith(n, S_image) /\ Truthy(p) THEN <<p>> ELSE <<>>)
          \o valid_images(fw_dict, Tail(items))

\* Variant: a missing coreboot target falls back to the model's name
\* instead of raising; C9 must notice.
_GetFirmwareUris_default_name(model_dict, items) ==
  LET fw == Attr(model_dict, K_firmware)
      fw_dict == GetNamedTuple(fw.d)
      overlay == Attr(fw, A_bcs_overlay)
      bcs_overlay == Replace(overlay.s, S_overlay_dash, <<>>)
      coreboot == Attr(Attr(fw, A_build_targets), A_coreboot)
      base_model == IF coreboot = Raised THEN Attr(model_dict, K_name)
                    ELSE coreboot
      images == valid_images(fw_dict, items)
  IN IF fw = Raised \/ overlay = Raised THEN Raise("AttributeError")
     ELSE IF ~Truthy(overlay) THEN Ok(<<>>)
     ELSE IF base_model = Raised THEN Raise("AttributeError")
     ELSE Ok([i \in 1..Len(images) |->
                Str(uri_format(bcs_overlay, base_model.s, images[i].s))])

\* items: the iteration order of the firmware fields (a dict's order is
\* not fixed by the language).
_GetFirmwareUris(model_dict, items) ==
  LET fw == Attr(model_dict, K_firmware)
      fw_dict == GetNamedTuple(fw.d)
      overlay == Attr(fw, A_bcs_overlay)
      bcs_overlay == Replace(overlay.s, S_overlay_dash, <<>>)
      base_model == Attr(Attr(fw, A_build_targets), A_coreboot)
      images == valid_images(fw_dict, items)
  IN IF fw = Raised \/ overlay = Raised THEN Raise("AttributeError")
     ELSE IF ~Truthy(overlay) THEN Ok(<<>>)
     ELSE IF base_model = Raised THEN Raise("AttributeError")
     ELSE IF images # <<>> /\ Attr(model_dict, K_name) = Raised
          THEN Raise("AttributeError")
     ELSE Ok([i \in 1..Len(images) |->
                Str(uri_format(bcs_overlay, base_model.s, images[i].s))])

\* ---------------------------------------------------------------------
\* TransformConfig: the body of `for model in json_config[MODELS]`
\* ---------------------------------------------------------------------
SetKey(dict, key, val) == Dict((key :> val) @@ dict.d)

HasAudioMain(model) ==
  /\ IsDict(model) /\ K_audio \in DOMAIN model.d
  /\ IsDict(model.d[K_audio]) /\ K_main \in DOMAIN model.d[K_audio].d
  /\ IsDict(model.d[K_audio].d[K_main])

\* '%s/%s' % (main_dir, sub_dir) when sub_dir is truthy
ResolveCrasConfigDir(audio) ==
  LET main_dir == DictGet(audio.d, cras_config_dir_name, Str(CRAS_CONFIG_DIR))
      sub_dir == DictGet(audio.d, cras_config_subdir_name, None)
  IN IF Truthy(sub_dir) THEN Str(main_dir.s \o <<"/">> \o sub_dir.s)
     ELSE main_dir

WithAudioMain(model, audio) ==
  SetKey(model, K_audio, SetKey(model.d[K_audio], K_main, audio))

\* The orders in which a dict with the given keys may be iterated.
Orders(keys) ==
  {q \in [1..Cardinality(keys) -> keys] :
     \A i, j \in 1..Cardinality(keys) : q[i] = q[j] => i = j}

\* The fields fw_dict.iteritems() runs over.
FirmwareFields(model) ==
  IF IsDict(model) /\ K_firmware \in DOMAIN model.d
     /\ IsDict(model.d[K_firmware])
  THEN DOMAIN GetNamedTuple(model.d[K_firmware].d)
  ELSE {}

\* ---------------------------------------------------------------------
\* _FilterBuildElements / FilterBuildElements
\* ---------------------------------------------------------------------
InList(x, list) == \E i \in 1..Len(list) : list[i] = x

\* "%s/%s" % (path, key)
FullPath(path, key) == path \o <<"/">> \o key

\* `for key in config`: the keys of config in the order rank lists them.
KeysInOrder(config, rank) == SelectSeq(rank, LAMBDA k : k \in DOMAIN config)

\* for key in to_delete: config.pop(key)
RECURSIVE PopAll(_, _)
PopAll(config, to_delete) ==
  IF to_delete = <<>> THEN config
  ELSE PopAll([k \in DOMAIN config \ {Head(to_delete)} |-> config[k]],
              Tail(to_delete))

\* Variant: the recursive call passes path instead of full_path, so a key
\* is matched by its name at any depth; C10 must notice.
RECURSIVE FilterLoop_same_path(_, _, _, _, _, _, _)
FilterLoop_same_path(config, path, rank, keys, to_delete, trail, calls) ==
  IF keys = <<>>
  THEN [config |-> PopAll(config, to_delete), calls |-> calls]
  ELSE
    LET key == Head(keys)
        full_path == FullPath(path, key)
    IN IF InList(full_path, BUILD_ONLY_ELEMENTS)
       THEN FilterLoop_same_path(config, path, rank, Tail(keys),
                                 Append(to_delete, key), trail, calls)
       ELSE IF IsDict(config[key])
       THEN LET sub == FilterLoop_same_path(
                         config[key].d, path, rank,
                         KeysInOrder(config[key].d, rank), <<>>,
                         Append(trail, key), calls \cup {Append(trail, key)})
            IN FilterLoop_same_path(
                 [config EXCEPT ![key] = Dict(sub.config)],
                 path, rank, Tail(keys), to_delete, trail, sub.calls)
       ELSE FilterLoop_same_path(config, path, rank, Tail(keys), to_delete,
                                 trail, calls)

\* The loop of _FilterBuildElements over the remaining keys.  trail is the
\* key sequence leading to config, and calls collects the trail of every
\* mapping the function is called on (bookkeeping for the properties; the
\* code does not keep it).
RECURSIVE FilterLoop(_, _, _, _, _, _, _)
FilterLoop(config, path, rank, keys, to_delete, trail, calls) ==
  IF keys = <<>>
  THEN [config |-> PopAll(config, to_delete), calls |-> calls]
  ELSE
    LET key == Head(keys)
        full_path == FullPath(path, key)
    IN IF InList(full_path, BUILD_ONLY_ELEMENTS)
       THEN FilterLoop(config, path, rank, Tail(keys),
                       Append(to_delete, key), trail, calls)
       ELSE IF IsDict(config[key])
       THEN LET sub == FilterLoop(config[key].d, full_path, rank,
                                  KeysInOrder(config[key].d, rank), <<>>,
                                  Append(trail, key),
                                  calls \cup {Append(trail, key)})
            IN FilterLoop([config EXCEPT ![key] = Dict(sub.config)],
                          path, rank, Tail(keys), to_delete, trail,
                          sub.calls)
       ELSE FilterLoop(config, path, rank, Tail(keys), to_delete, trail,
                       calls)

_FilterBuildElements(config, path, rank) ==
  FilterLoop(config, path, rank, KeysInOrder(config, rank), <<>>, <<>>,
             {<<>>})

\* json_config[MODELS] after `for model in ...: _FilterBuildElements(model, "")`
FilterBuildElements(config, rank) ==
  LET models == config.d[MODELS].l
      res == [i \in 1..Len(models) |->
                _FilterBuildElements(models[i].d, <<>>, rank)]
  IN [config |-> Dict(MODELS :> List([i \in 1..Len(models) |->
                                         Dict(res[i].config)])),
      calls |-> [i \in 1..Len(models) |-> res[i].calls]]

\* ---------------------------------------------------------------------
\* ValidateConfig
\* ---------------------------------------------------------------------
\* Variant: the comparison is == instead of !=; C2 must notice.
ValidateConfig_equal(config) ==
  LET models == config.d[MODELS].l
      model_names == [i \in 1..Len(models) |-> models[i].d[K_name]]
  IN IF \E i \in 1..Len(models) : K_name \notin DOMAIN models[i].d
     THEN Raise("KeyError")
     ELSE IF Len(model_names)
             = Cardinality({model_names[i] : i \in 1..Len(models)})
     THEN [err |-> "ValidationError", val |-> model_names]
     ELSE Ok(<<>>)

\* Raises KeyError for a model without a name, ValidationError carrying
\* the list of all model names when two names are equal.
ValidateConfig(config) ==
  LET models == config.d[MODELS].l
      model_names == [i \in 1..Len(models) |-> models[i].d[K_name]]
  IN IF \E i \in 1..Len(models) : K_name \notin DOMAIN models[i].d
     THEN Raise("KeyError")
     ELSE IF Len(model_names)
             # Cardinality({model_names[i] : i \in 1..Len(models)})
     THEN [err |-> "ValidationError", val |-> model_names]
     ELSE Ok(<<>>)

\* ---------------------------------------------------------------------
\* Inputs
\* ---------------------------------------------------------------------
Absent == <<"<absent>">>
Null == <<"<null>">>

\* A mapping from the fields that are given: Absent leaves the key out,
\* Null is a YAML null, anything else is text.
Fields(opts) ==
  [k \in {k \in DOMAIN opts : opts[k] # Absent} |->
     IF opts[k] = Null THEN None ELSE Str(opts[k])]

T_bay == <<"bay">>
T_reef == <<"reef">>
T_pyro == <<"pyro">>
T_opt_cras == <<"/", "opt", "/", "cras">>
T_pro == <<"pro">>
T_fw_bin == <<"fw", ".", "bin">>
T_overlay_reef == <<"overlay", "-", "reef", "-", "private">>
T_overlay_overlay == <<"overlay", "-", "overlay", "-", "x">>
T_main_bin == <<"Reef", ".", "bin">>
T_ec_bin == <<"EC", ".", "bin">>
K_ucm_suffix == <<"ucm", "-", "suffix">>
K_firmware_bin == <<"firmware", "-", "bin">>
K_bcs_overlay == <<"bcs", "-", "overlay">>
K_build_targets == <<"build", "-", "targets">>
K_coreboot == <<"coreboot">>
K_ec == <<"ec">>
K_main_image == <<"main", "-", "image">>
K_ec_image == <<"ec", "-", "image">>
K_common == <<"common">>

AudioMains ==
  {Fields((K_card :> T_bay) @@ (cras_config_dir_name :> dir)
          @@ (cras_config_subdir_name :> sub) @@ (K_ucm_suffix :> suf)
          @@ (K_firmware_bin :> bin)) :
     dir \in {Absent, T_opt_cras}, sub \in {Absent, <<>>, T_pyro},
     suf \in {Absent, T_pro}, bin \in {Absent, T_fw_bin}}

BuildTargets ==
  {Dict(K_coreboot :> Str(T_pyro)), Dict(K_ec :> Str(T_pyro))}

FirmwareTexts ==
  {Fields((K_bcs_overlay :> ov) @@ (K_main_image :> mi)
          @@ (K_ec_image :> ei)) :
     ov \in {Absent, Null, <<>>, T_overlay_reef, T_overlay_overlay},
     mi \in {Absent, <<>>, T_main_bin}, ei \in {Absent, T_ec_bin}}

Firmwares ==
  FirmwareTexts
  \cup {(K_build_targets :> bt) @@ f : bt \in BuildTargets, f \in FirmwareTexts}

Model(name, audio, firmware) ==
  Dict((K_name :> Str(name)) @@ (K_audio :> Dict(K_main :> Dict(audio)))
       @@ (K_firmware :> Dict(firmware)))

FullModels == {Model(T_reef, a, f) : a \in AudioMains, f \in Firmwares}

\* A few kinds of model, under either name, for documents of several models.
PlainAudio == Fields((K_card :> T_bay) @@ (cras_config_subdir_name :> <<>>))
SubdirAudio == Fields((K_card :> T_bay) @@ (cras_config_subdir_name :> T_pyro)
                      @@ (K_ucm_suffix :> T_pro))
NoSubdirAudio == Fields(K_card :> T_bay)
NoFirmware == Fields(K_bcs_overlay :> <<>>)
BcsFirmware ==
  (K_build_targets :> Dict(K_coreboot :> Str(T_pyro)))
  @@ Fields((K_bcs_overlay :> T_overlay_reef) @@ (K_main_image :> T_main_bin))
NoCorebootFirmware ==
  Fields((K_bcs_overlay :> T_overlay_reef) @@ (K_main_image :> T_main_bin))

SomeModels ==
  {Model(n, af[1], af[2]) :
     n \in {T_reef, T_pyro},
     af \in {<<PlainAudio, NoFirmware>>, <<SubdirAudio, BcsFirmware>>,
             <<NoSubdirAudio, NoFirmware>>, <<PlainAudio, NoCorebootFirmware>>}}

ModelLists ==
  {<<m>> : m \in FullModels}
  \cup UNION {[1..n -> SomeModels] : n \in 0..MaxModels}

\* The source document: whether it parses, and its top-level mapping.
Document(models) ==
  [yaml_ok |-> TRUE,
   top |-> Dict((MODELS :> List(models)) @@ (K_common :> Str(T_bay)))]
Malformed == [yaml_ok |-> FALSE, top |-> Dict(<<>>)]
NoModels == [yaml_ok |-> TRUE, top |-> Dict(K_common :> Str(T_bay))]

Configs == {Document(ms) : ms \in ModelLists} \cup {Malformed, NoModels}

\* Orders in which the filter may meet the keys of a derived document.
KeyRank ==
  <<K_name, K_audio, K_firmware, K_main, K_card, cras_config_dir_name,
    cras_config_subdir_name, K_ucm_suffix, K_firmware_bin, K_files>>
Reverse(q) == [j \in 1..Len(q) |-> q[Len(q) + 1 - j]]
KeyRanks == {KeyRank, Reverse(KeyRank)}

\* ---------------------------------------------------------------------
\* State
\* ---------------------------------------------------------------------
VARIABLES
  config,                \* Main's config: the source document
  output,                \* Main's output: TRUE when an output path is given
  filter_build_details,  \* Main's filter_build_details
  pc,                    \* where the run is
  json_config,           \* TransformConfig's json_config
  idx,                   \* position of `for model in json_config[MODELS]`
  json_transform,        \* Main's json_transform
  out,                   \* what was written to the file or printed
  err,                   \* the exception that ended the run, "" if none
  report,                \* the argument of that exception's message
  stages,                \* history: the functions Main has called, in order
  before,                \* history: the document FilterBuildElements got
  calls                  \* history: mappings _FilterBuildElements was called on

vars == <<config, output, filter_build_details, pc, json_config, idx,
          json_transform, out, err, report, stages, before, calls>>

NoOutput == [to |-> "none", text |-> None]

Init ==
  /\ config \in Configs
  /\ output \in BOOLEAN
  /\ filter_build_details \in BOOLEAN
  /\ pc = "Main"
  /\ json_config = None
  /\ idx = 0
  /\ json_transform = None
  /\ out = NoOutput
  /\ err = ""
  /\ report = <<>>
  /\ stages = <<>>
  /\ before = None
  /\ calls = <<>>

Fail(e, msg) ==
  /\ pc' = "failed"
  /\ err' = e
  /\ report' = msg

\* ---------------------------------------------------------------------
\* Main
\* ---------------------------------------------------------------------
\* TransformConfig up to the loop: yaml.load, the JSON round trip and
\* {MODELS: json_config[MODELS]}.
TransformConfig_load ==
  /\ pc = "Main"
  /\ stages' = Append(stages, "TransformConfig")
  /\ IF ~config.yaml_ok
     THEN Fail("YAMLError", <<>>) /\ UNCHANGED <<json_config, idx>>
     ELSE IF MODELS \notin DOMAIN config.top.d
     THEN Fail("KeyError", <<>>) /\ UNCHANGED <<json_config, idx>>
     ELSE /\ json_config' = Dict(MODELS :> config.top.d[MODELS])
          /\ idx' = 1
          /\ pc' = "TransformConfig"
          /\ UNCHANGED <<err, report>>
  /\ UNCHANGED <<config, output, filter_build_details, json_transform, out,
                 before, calls>>

\* The model the loop is at, and json_config with that model replaced.
CurrentModel == json_config.d[MODELS].l[idx]
WithCurrentModel(model) ==
  Dict(MODELS :> List([json_config.d[MODELS].l EXCEPT ![idx] = model]))

\* `for model in json_config[MODELS]`, up to audio[cras_config_dir_name] =
\* main_dir.
TransformConfig_dir ==
  /\ pc = "TransformConfig"
  /\ idx <= Len(json_config.d[MODELS].l)
  /\ IF ~HasAudioMain(CurrentModel)
     THEN Fail("KeyError", <<>>) /\ UNCHANGED json_config
     ELSE /\ json_config' =
               WithCurrentModel(
                 WithAudioMain(CurrentModel,
                   SetKey(CurrentModel.d[K_audio].d[K_main],
                          cras_config_dir_name,
                          ResolveCrasConfigDir(
                            CurrentModel.d[K_audio].d[K_main]))))
          /\ pc' = "_GetAudioFiles"
          /\ UNCHANGED <<err, report>>
  /\ UNCHANGED <<config, output, filter_build_details, idx, json_transform,
                 out, stages, before, calls>>

\* audio['files'] = _GetAudioFiles(model)
TransformConfig_files ==
  /\ pc = "_GetAudioFiles"
  /\ LET r == _GetAudioFiles(CurrentModel)
     IN IF r.err # ""
        THEN Fail(r.err, <<>>) /\ UNCHANGED json_config
        ELSE /\ json_config' =
                  WithCurrentModel(
                    WithAudioMain(CurrentModel,
                      SetKey(CurrentModel.d[K_audio].d[K_main], K_files,
                             List(r.val))))
             /\ pc' = "_GetFirmwareUris"
             /\ UNCHANGED <<err, report>>
  /\ UNCHANGED <<config, output, filter_build_details, idx, json_transform,
                 out, stages, before, calls>>

\* model['firmware']['bcs-uris'] = _GetFirmwareUris(model), and on to the
\* next model.
TransformConfig_uris ==
  /\ pc = "_GetFirmwareUris"
  /\ \E items \in Orders(FirmwareFields(CurrentModel)) :
       LET r == _GetFirmwareUris(CurrentModel, items)
       IN IF r.err # ""
          THEN Fail(r.err, <<>>) /\ UNCHANGED <<json_config, idx>>
          ELSE /\ json_config' =
                    WithCurrentModel(
                      SetKey(CurrentModel, K_firmware,
                             SetKey(CurrentModel.d[K_firmware], K_bcs_uris,
                                    List(r.val))))
               /\ idx' = idx + 1
               /\ pc' = "TransformConfig"
               /\ UNCHANGED <<err, report>>
  /\ UNCHANGED <<config, output, filter_build_details, json_transform, out,
                 stages, before, calls>>

\* return json.dumps(json_config, ...), assigned to json_transform.
TransformConfig_return ==
  /\ pc = "TransformConfig"
  /\ idx > Len(json_config.d[MODELS].l)
  /\ json_transform' = json_config
  /\ pc' = "ValidateConfigSchema"
  /\ UNCHANGED <<config, output, filter_build_details, json_config, idx, out,
                 err, report, stages, before, calls>>

\* ValidateConfigSchema(schema_stream.read(), json_transform): the schema
\* is a file outside the program, so either outcome is possible.
Main_ValidateConfigSchema ==
  /\ pc = "ValidateConfigSchema"
  /\ stages' = Append(stages, "ValidateConfigSchema")
  /\ \E valid \in BOOLEAN :
       IF valid
       THEN pc' = "ValidateConfig" /\ UNCHANGED <<err, report>>
       ELSE Fail("jsonschema.ValidationError", <<>>)
  /\ UNCHANGED <<config, output, filter_build_details, json_config, idx,
                 json_transform, out, before, calls>>

\* Variant: a ValidateConfig failure is recorded but the run goes on; C1
\* must notice.
Main_ValidateConfig_continue ==
  /\ pc = "ValidateConfig"
  /\ stages' = Append(stages, "ValidateConfig")
  /\ LET r == ValidateConfig(json_transform)
     IN /\ err' = r.err
        /\ report' = r.val
        /\ pc' = IF filter_build_details THEN "FilterBuildElements"
                 ELSE "output"
  /\ UNCHANGED <<config, output, filter_build_details, json_config, idx,
                 json_transform, out, before, calls>>

\* ValidateConfig(json_transform)
Main_ValidateConfig ==
  /\ pc = "ValidateConfig"
  /\ stages' = Append(stages, "ValidateConfig")
  /\ LET r == ValidateConfig(json_transform)
     IN IF r.err # ""
        THEN Fail(r.err, r.val)
        ELSE /\ pc' = IF filter_build_details THEN "FilterBuildElements"
                      ELSE "output"
             /\ UNCHANGED <<err, report>>
  /\ UNCHANGED <<config, output, filter_build_details, json_config, idx,
                 json_transform, out, before, calls>>

\* if filter_build_details: json_transform = FilterBuildElements(...)
Main_FilterBuildElements ==
  /\ pc = "FilterBuildElements"
  /\ stages' = Append(stages, "FilterBuildElements")
  /\ before' = json_transform
  /\ \E rank \in KeyRanks :
       LET r == FilterBuildElements(json_transform, rank)
       IN json_transform' = r.config /\ calls' = r.calls
  /\ pc' = "output"
  /\ UNCHANGED <<config, output, filter_build_details, json_config, idx, out,
                 err, report>>

\* output_stream.write(json_transform)
Main_write ==
  /\ pc = "output"
  /\ output
  /\ stages' = Append(stages, "write")
  /\ out' = [to |-> "file", text |-> json_transform]
  /\ pc' = "done"
  /\ UNCHANGED <<config, output, filter_build_details, json_config, idx,
                 json_transform, err, report, before, calls>>

\* print (json_transform)
Main_print ==
  /\ pc = "output"
  /\ ~output
  /\ stages' = Append(stages, "print")
  /\ out' = [to |-> "stdout", text |-> json_transform]
  /\ pc' = "done"
  /\ UNCHANGED <<config, output, filter_build_details, json_config, idx,
                 json_transform, err, report, before, calls>>

Next ==
  \/ TransformConfig_load
  \/ TransformConfig_dir
  \/ TransformConfig_files
  \/ TransformConfig_uris
  \/ TransformConfig_return
  \/ Main_ValidateConfigSchema
  \/ Main_ValidateConfig
  \/ Main_FilterBuildElements
  \/ Main_write
  \/ Main_print

Spec == Init /\ [][Next]_vars

\* ---------------------------------------------------------------------
\* FilterBuildElements called on its own, on any model tree
\* ---------------------------------------------------------------------
K_ok == <<"ok">>
K_audio_main == <<"audio", "/", "main">>
K_audio_main_card == <<"audio", "/", "main", "/", "card">>
Leaf == Str(T_bay)

\* The keys a mapping at the given depth may have.
KeysAt(level) ==
  CASE level = 1 -> {K_firmware, K_audio}
    [] level = 2 -> {K_main}
    [] level = 3 -> {K_card, K_firmware}
    [] OTHER -> {K_ok}

RECURSIVE MappingsAt(_)
ValuesAt(level) ==
  {Leaf} \cup (IF level < MaxTreeDepth
               THEN {Dict(f) : f \in MappingsAt(level + 1)}
               ELSE {})
MappingsAt(level) ==
  UNION {[keys -> ValuesAt(level)] : keys \in SUBSET KeysAt(level)}

\* Trees whose keys contain the separator, or that hold lists.
OtherTrees ==
  { (K_audio_main :> Dict(K_card :> Leaf))
      @@ (K_audio :> Dict(K_main :> Dict(K_ok :> Leaf))),
    (K_audio_main_card :> Leaf) @@ (K_ok :> Dict(K_firmware :> Leaf)),
    (K_audio :> Dict((K_main :> List(<<Dict(K_card :> Leaf)>>))
                     @@ (K_audio_main :> Leaf)))
      @@ (K_ok :> List(<<Dict(K_firmware :> Leaf)>>)),
    (K_audio :> Dict((K_main :> Dict((K_files :> Dict(K_ok :> Leaf))
                                     @@ (K_card :> Dict(K_card :> Leaf))
                                     @@ (cras_config_subdir_name :> Leaf)))
                     @@ (K_card :> Leaf))) }

ModelTrees == MappingsAt(1) \cup OtherTrees

\* Every key of the nested mappings of a value.
RECURSIVE AllKeys(_)
AllKeys(v) ==
  IF IsDict(v)
  THEN DOMAIN v.d \cup UNION {AllKeys(v.d[k]) : k \in DOMAIN v.d}
  ELSE {}

InitFilter ==
  /\ config = Malformed
  /\ output = FALSE
  /\ filter_build_details = TRUE
  /\ pc = "call"
  /\ json_config = None
  /\ idx = 0
  /\ json_transform \in {Dict(MODELS :> List(<<Dict(tree)>>)) :
                           tree \in ModelTrees}
  /\ out = NoOutput
  /\ err = ""
  /\ report = <<>>
  /\ stages = <<>>
  /\ before = None
  /\ calls = <<>>

\* FilterBuildElements(config), the keys of every mapping met in any order.
Call_FilterBuildElements ==
  /\ pc = "call"
  /\ before' = json_transform
  /\ \E rank \in Orders(AllKeys(json_transform.d[MODELS].l[1])) :
       LET r == FilterBuildElements(json_transform, rank)
       IN json_transform' = r.config /\ calls' = r.calls
  /\ pc' = "return"
  /\ UNCHANGED <<config, output, filter_build_details, json_config, idx, out,
                 err, report, stages>>

NextFilter == Call_FilterBuildElements

SpecFilter == InitFilter /\ [][NextFilter]_vars

\* ---------------------------------------------------------------------
\* Vocabulary of the properties
\* ---------------------------------------------------------------------
\* The value reached from v through nested mappings along a key sequence,
\* Raised when there is none.
RECURSIVE NodeAt(_, _)
NodeAt(v, trail) ==
  IF trail = <<>> THEN v
  ELSE IF IsDict(v) /\ Head(trail) \in DOMAIN v.d
       THEN NodeAt(v.d[Head(trail)], Tail(trail))
       ELSE Raised

Present(v, trail) == NodeAt(v, trail) # Raised

\* The key sequences of all values reachable through nested mappings.
RECURSIVE Trails(_)
Trails(v) ==
  {<<>>} \cup
  (IF IsDict(v)
   THEN UNION {{<<k>> \o tr : tr \in Trails(v.d[k])} : k \in DOMAIN v.d}
   ELSE {})

\* The slash-joined path of a key sequence.
RECURSIVE SlashPath(_)
SlashPath(trail) ==
  IF trail = <<>> THEN <<>>
  ELSE <<"/">> \o Head(trail) \o SlashPath(Tail(trail))

BuildOnly(trail) == InList(SlashPath(trail), BUILD_ONLY_ELEMENTS)

\* The value at trail, or one of its ancestors below the root, is build-only.
Pruned(trail) == \E j \in 1..Len(trail) : BuildOnly(SubSeq(trail, 1, j))

ModelsOf(doc) == doc.d[MODELS].l

\* C10: after _FilterBuildElements ran on a model tree, in whatever order
\* the keys were visited, a value reachable through nested mappings is
\* present exactly when it was present before and neither its slash-joined
\* path nor that of an ancestor is a build-only element; a surviving value
\* that is not a mapping is unchanged and a surviving mapping is still a
\* mapping; and the function was never called on a mapping at or below a
\* build-only path.  The outcome is thus the same for every order.
C10_FilterKeepsExactlyUnprunedPaths ==
  pc = "return" =>
    \A m \in 1..Len(ModelsOf(before)) :
      LET old == ModelsOf(before)[m]
          new == ModelsOf(json_transform)[m]
      IN /\ Len(ModelsOf(json_transform)) = Len(ModelsOf(before))
         /\ \A trail \in Trails(old) \cup Trails(new) :
              /\ Present(new, trail) <=> (Present(old, trail) /\ ~Pruned(trail))
              /\ Present(new, trail) =>
                   IF IsDict(NodeAt(old, trail))
                   THEN IsDict(NodeAt(new, trail))
                   ELSE NodeAt(new, trail) = NodeAt(old, trail)
         /\ \A trail \in calls[m] : Present(old, trail) /\ ~Pruned(trail)

\* A build-only mapping with children of its own was removed whole while a
\* key of the same name deeper in the tree was kept.
C10_Witness ==
  /\ pc = "return"
  /\ LET old == ModelsOf(before)[1]
         new == ModelsOf(json_transform)[1]
     IN /\ Present(old, <<K_firmware, K_main>>)
        /\ ~Present(new, <<K_firmware>>)
        /\ Present(old, <<K_audio, K_main, K_card>>)
        /\ Present(new, <<K_audio, K_main, K_firmware>>)
        /\ ~Present(new, <<K_audio, K_main, K_card>>)

\* ---------------------------------------------------------------------
\* Properties of Main
\* ---------------------------------------------------------------------
Range(q) == {q[j] : j \in 1..Len(q)}
IsPrefix(q, r) == Len(q) <= Len(r) /\ SubSeq(r, 1, Len(q)) = q

\* Number of places where p occurs in x.
Occurrences(x, p) ==
  Cardinality({j \in 1..(Len(x) - Len(p) + 1) :
                 SubSeq(x, j, j + Len(p) - 1) = p})
Contains(x, p) == Occurrences(x, p) >= 1

\* The models as authored, and as TransformConfig has them so far.
SrcModels ==
  IF config.yaml_ok /\ MODELS \in DOMAIN config.top.d
  THEN config.top.d[MODELS].l ELSE <<>>
CurModels == IF json_config = None THEN <<>> ELSE json_config.d[MODELS].l
MainOf(model) == model.d[K_audio].d[K_main].d
FwOf(model) == model.d[K_firmware].d

\* How far the derivation of model m got.
FilesDone(m) == m <= Len(CurModels) /\ K_files \in DOMAIN MainOf(CurModels[m])
Derived(m) == m <= Len(CurModels) /\ idx > m
FailedAt(m) == pc = "failed" /\ json_config # None /\ idx = m
FailedInFiles(m) == FailedAt(m) /\ ~FilesDone(m)
FailedInUris(m) == FailedAt(m) /\ FilesDone(m)

StagesInOrder ==
  <<"TransformConfig", "ValidateConfigSchema", "ValidateConfig">>
  \o (IF filter_build_details THEN <<"FilterBuildElements">> ELSE <<>>)
  \o <<IF output THEN "write" ELSE "print">>

\* C1: Main calls TransformConfig, ValidateConfigSchema, ValidateConfig,
\* FilterBuildElements (only when filter_build_details is set) and then
\* writes or prints, in that order; output exists only after all of them
\* ran without error; and once TransformConfig, ValidateConfigSchema or
\* ValidateConfig has failed the run is over, nothing is written or
\* printed and FilterBuildElements has not run.
C1_StagesInOrderAndNoOutputOnFailure ==
  /\ IsPrefix(stages, StagesInOrder)
  /\ out # NoOutput =>
       /\ stages = StagesInOrder
       /\ err = ""
       /\ out.to = (IF output THEN "file" ELSE "stdout")
       /\ out.text = json_transform
  /\ (err # "" \/ pc = "failed") =>
       /\ pc = "failed"
       /\ err # ""
       /\ out = NoOutput
       /\ "FilterBuildElements" \notin Range(stages)
       /\ ~ENABLED Next

\* A run with filter_build_details set that ValidateConfig ended.
C1_Witness ==
  /\ pc = "failed"
  /\ filter_build_details
  /\ err = "ValidationError"
  /\ stages = <<"TransformConfig", "ValidateConfigSchema", "ValidateConfig">>

ModelNames == [m \in 1..Len(CurModels) |-> CurModels[m].d[K_name]]
Duplicated(name) ==
  \E m, n \in 1..Len(CurModels) :
    m # n /\ ModelNames[m] = name /\ ModelNames[n] = name

\* C2: once ValidateConfig has run, it raised a ValidationError whose
\* message lists every model name that occurs more than once if some name
\* does, and raised nothing if the names are pairwise distinct.
C2_DuplicateNamesRaise ==
  "ValidateConfig" \in Range(stages) =>
    IF \E m \in 1..Len(CurModels) : Duplicated(ModelNames[m])
    THEN /\ err = "ValidationError"
         /\ \A m \in 1..Len(CurModels) :
              Duplicated(ModelNames[m]) => ModelNames[m] \in Range(report)
    ELSE err = "" /\ pc # "failed"

\* Two models named reef were refused.
C2_Witness ==
  /\ "ValidateConfig" \in Range(stages)
  /\ Len(CurModels) >= 2
  /\ ModelNames[1] = Str(T_reef)
  /\ ModelNames[2] = Str(T_reef)
  /\ err = "ValidationError"

NoBcsOverlay(model) ==
  K_bcs_overlay \notin DOMAIN FwOf(model)
  \/ ~Truthy(FwOf(model)[K_bcs_overlay])

\* C3: for a model whose firmware has no bcs-overlay (no such key, or an
\* empty value), _GetFirmwareUris does not fail and bcs-uris is the empty
\* list.
C3_NoOverlayGivesEmptyUris ==
  \A m \in 1..Len(SrcModels) :
    NoBcsOverlay(SrcModels[m]) =>
      /\ ~FailedInUris(m)
      /\ Derived(m) => FwOf(CurModels[m])[K_bcs_uris] = List(<<>>)

\* The firmware fields that name an image and are not empty.
ImageFields(model) ==
  {k \in DOMAIN FwOf(model) :
     EndsWith(k, S_image) /\ Truthy(FwOf(model)[k])}

HasOverlayAndCoreboot(model) ==
  /\ ~NoBcsOverlay(model)
  /\ StartsWith(FwOf(model)[K_bcs_overlay].s, S_overlay_dash)
  /\ K_build_targets \in DOMAIN FwOf(model)
  /\ K_coreboot \in DOMAIN FwOf(model)[K_build_targets].d

\* X of bcs-overlay 'overlay-X', and Y of the coreboot build target.
OverlayX(model) ==
  SubSeq(FwOf(model)[K_bcs_overlay].s, 3, Len(FwOf(model)[K_bcs_overlay].s))
CorebootY(model) == FwOf(model)[K_build_targets].d[K_coreboot].s

UrisOf(m) == FwOf(CurModels[m])[K_bcs_uris].l

\* bcs-uris has one URI per image field, each ending in that field's value.
OneUriPerImageField(m) ==
  /\ Len(UrisOf(m)) = Cardinality(ImageFields(SrcModels[m]))
  /\ \A k \in ImageFields(SrcModels[m]) :
       \E j \in 1..Len(UrisOf(m)) :
         EndsWith(UrisOf(m)[j].s, <<"/">> \o FwOf(SrcModels[m])[k].s)

S_bcs_dash == <<"bcs", "-">>
S_chromeos_firmware_dash == <<"chromeos", "-", "firmware", "-">>

Filtered == "FilterBuildElements" \in Range(stages)

\* C5 as stated: after FilterBuildElements no model has a 'firmware' key
\* and every model's 'audio' subtree is what it was before.
C5_Original_AudioUntouched ==
  Filtered =>
    \A m \in 1..Len(ModelsOf(before)) :
      /\ K_firmware \notin DOMAIN ModelsOf(json_transform)[m].d
      /\ ModelsOf(json_transform)[m].d[K_audio] = ModelsOf(before)[m].d[K_audio]

AudioBuildOnlyKeys == {K_card, cras_config_subdir_name, K_files}

\* C5 amended: after FilterBuildElements no model has a 'firmware' key,
\* and every model's 'audio' subtree is what it was before except that
\* audio/main has lost its card, cras-config-subdir and files entries (the
\* other build-only elements); every other entry of audio/main, and the
\* model's name, are unchanged.
C5_FirmwareGoneAudioBuildOnlyGone ==
  Filtered =>
    /\ Len(ModelsOf(json_transform)) = Len(ModelsOf(before))
    /\ \A m \in 1..Len(ModelsOf(before)) :
         LET old == ModelsOf(before)[m]
             new == ModelsOf(json_transform)[m]
         IN /\ K_firmware \in DOMAIN old.d
            /\ DOMAIN new.d = DOMAIN old.d \ {K_firmware}
            /\ new.d[K_name] = old.d[K_name]
            /\ DOMAIN new.d[K_audio].d = DOMAIN old.d[K_audio].d
            /\ MainOf(new) =
                 [k \in DOMAIN MainOf(old) \ AudioBuildOnlyKeys |->
                    MainOf(old)[k]]

\* A filtered model that had firmware, kept its ucm-suffix and lost its
\* card.
C5_Witness ==
  /\ Filtered
  /\ \E m \in 1..Len(ModelsOf(before)) :
       /\ K_bcs_uris \in DOMAIN FwOf(ModelsOf(before)[m])
       /\ K_card \in DOMAIN MainOf(ModelsOf(before)[m])
       /\ K_ucm_suffix \in DOMAIN MainOf(ModelsOf(json_transform)[m])

OptionalAudioKeys == {cras_config_subdir_name, K_ucm_suffix, K_firmware_bin}
FilesOf(m) == MainOf(CurModels[m])[K_files].l
File(source, dest) == Dict((K_source :> Str(source)) @@ (K_dest :> Str(dest)))
CardOf(model) == MainOf(model)[K_card].s
S_cras_config == <<"cras", "-", "config">>
S_ucm_config == <<"ucm", "-", "config">>
S_ucm_share == <<"/", "ucm", "/", "share", "/", "alsa", "/", "ucm">>
S_dsp_ini == <<"dsp", ".", "ini">>
S_HiFi_conf == <<"HiFi", ".", "conf">>
S_dot_conf == <<".", "conf">>
Slash(a, b) == a \o <<"/">> \o b

\* C6: for a model whose audio has a card C and no cras-config-subdir, no
\* ucm-suffix and no firmware-bin, _GetAudioFiles does not fail and files
\* is exactly cras-config/C -> /etc/cras/C,
\* cras-config/dsp.ini -> /etc/cras/dsp.ini,
\* ucm-config/C/HiFi.conf -> /ucm/share/alsa/ucm/C/HiFi.conf,
\* ucm-config/C/C.conf -> /ucm/share/alsa/ucm/C/C.conf, in this order.
C6_CardOnlyGivesFourFiles ==
  \A m \in 1..Len(SrcModels) :
    (/\ K_card \in DOMAIN MainOf(SrcModels[m])
     /\ DOMAIN MainOf(SrcModels[m]) \cap OptionalAudioKeys = {}) =>
      LET C == CardOf(SrcModels[m])
      IN /\ ~FailedInFiles(m)
         /\ FilesDone(m) =>
              FilesOf(m) =
                << File(Slash(S_cras_config, C), Slash(CRAS_CONFIG_DIR, C)),
                   File(Slash(S_cras_config, S_dsp_ini),
                        Slash(CRAS_CONFIG_DIR, S_dsp_ini)),
                   File(Slash(Slash(S_ucm_config, C), S_HiFi_conf),
                        Slash(Slash(S_ucm_share, C), S_HiFi_conf)),
                   File(Slash(Slash(S_ucm_config, C), C \o S_dot_conf),
                        Slash(Slash(S_ucm_share, C), C \o S_dot_conf)) >>

HasText(mapping, key) == key \in DOMAIN mapping /\ Truthy(mapping[key])

\* C7: once a model's files are derived, its cras-config-dir is D when no
\* subdirectory is given and D/subdir when one is, D being the authored
\* cras-config-dir or else /etc/cras; and the first two files (the card
\* file and dsp.ini) are destined for that cras-config-dir.
C7_CrasDirAndDestinations ==
  \A m \in 1..Len(SrcModels) :
    FilesDone(m) =>
      LET src == MainOf(SrcModels[m])
          D == IF cras_config_dir_name \in DOMAIN src
               THEN src[cras_config_dir_name].s ELSE CRAS_CONFIG_DIR
          dir == MainOf(CurModels[m])[cras_config_dir_name].s
      IN /\ dir = IF HasText(src, cras_config_subdir_name)
                  THEN Slash(D, src[cras_config_subdir_name].s) ELSE D
         /\ FilesOf(m)[1].d[K_dest].s = Slash(dir, CardOf(SrcModels[m]))
         /\ FilesOf(m)[2].d[K_dest].s = Slash(dir, S_dsp_ini)

\* C8: once a model's files are derived, the third and fourth are
\* ucm-config/B/HiFi.conf and ucm-config/B/B.conf, destined for
\* /ucm/share/alsa/ucm/B/, where B is C.S for card C with a non-empty
\* ucm-suffix S and C when there is no ucm-suffix.
C8_UcmFilesCarrySuffix ==
  \A m \in 1..Len(SrcModels) :
    FilesDone(m) =>
      LET src == MainOf(SrcModels[m])
          B == IF HasText(src, K_ucm_suffix)
               THEN CardOf(SrcModels[m]) \o <<".">> \o src[K_ucm_suffix].s
               ELSE CardOf(SrcModels[m])
      IN /\ FilesOf(m)[3] =
              File(Slash(Slash(S_ucm_config, B), S_HiFi_conf),
                   Slash(Slash(S_ucm_share, B), S_HiFi_conf))
         /\ FilesOf(m)[4] =
              File(Slash(Slash(S_ucm_config, B), B \o S_dot_conf),
                   Slash(Slash(S_ucm_share, B), B \o S_dot_conf))

NoCoreboot(model) ==
  \/ K_build_targets \notin DOMAIN FwOf(model)
  \/ K_coreboot \notin DOMAIN FwOf(model)[K_build_targets].d

\* The derivation got as far as _GetFirmwareUris for model m.
UrisStepRan(m) == FilesDone(m) /\ (idx > m \/ FailedAt(m))

\* What C9 says of a model with a bcs-overlay and no coreboot target,
\* whatever the exception: it is never derived, gets no bcs-uris, nothing
\* is written or printed, and _GetFirmwareUris, when reached, ends the run
\* with exception e.
BcsWithoutCorebootFails(e) ==
  \A m \in 1..Len(SrcModels) :
    (~NoBcsOverlay(SrcModels[m]) /\ NoCoreboot(SrcModels[m])) =>
      /\ out = NoOutput
      /\ ~Derived(m)
      /\ m <= Len(CurModels) => K_bcs_uris \notin DOMAIN FwOf(CurModels[m])
      /\ UrisStepRan(m) => (FailedInUris(m) /\ err = e)

====
